---- MODULE Spec2Model ----
(***************************************************************************)
(* Geano's GDSA Exchange Office: the currency normalizer (toBaseUnit,      *)
(* fromBaseUnit, optimizeMoney, needsOptimization) and the update          *)
(* coalescer (scheduleConversion, performConversion, promptManualExchange, *)
(* the updateActor hook) of class DSAMoneyConverter, as a state machine.   *)
(*                                                                         *)
(* The host (FoundryVTT) is modelled by what the script uses of it: the    *)
(* actor collection game.actors, the client setting showNotifications,     *)
(* game.system.id, setTimeout/clearTimeout, the asynchronous actor.update  *)
(* and the confirmation dialog.  The setting showNotifications is a client *)
(* setting the user may switch at any moment: each step that reads it      *)
(* draws its value (show) from BOOLEAN.  A confirmation dialog of          *)
(* promptManualExchange, opened while its actor existed, resolves at any   *)
(* later moment: the step promptManualExchange is the moment it resolves.  *)
(***************************************************************************)
EXTENDS Integers, Sequences, FiniteSets, TLC

VARIABLES
    actors,             \* game.actors: id -> [exists, type, money]
    systemId,           \* game.system.id
    updateTimers,       \* DSAMoneyConverter.updateTimers: id -> timer handle (NoHandle: no entry)
    timers,             \* the host's timer table: handle -> live setTimeout callback, or NoTimer
    pendingWrites,      \* actor.update calls issued by performConversion and not yet resolved
    last,               \* history: what the last step did
    calcIn,             \* normalizer harness: the input handed to the pure functions
    calcOut             \* normalizer harness: what they returned

sysVars == <<actors, systemId, updateTimers, timers, pendingWrites,
             last>>
calcVars == <<calcIn, calcOut>>
vars == <<actors, systemId, updateTimers, timers, pendingWrites,
          last, calcIn, calcOut>>

----------------------------------------------------------------------------
(* Bounds of the model *)

\* timer handles the host can have live at once
MaxTimers == 2
\* actor.update calls that can be in flight at once
MaxInflight == 1
\* how far one Tick advances time
TickStep == 50
\* totals handed to fromBaseUnit range over -MaxTotal..MaxTotal
MaxTotal == 2300
\* silver, copper, nickel handed to optimizeMoney range over -MaxField..MaxField
MaxField == 11
\* gold handed to optimizeMoney ranges over -MaxGold..MaxGold
MaxGold == 2

----------------------------------------------------------------------------
(* Program constants *)

\* setTimeout(..., 100)
Delay == 100

CONVERSION_RATES == [nickel |-> 1, copper |-> 10, silver |-> 100, gold |-> 1000]

Actors == {"a1", "a2"}
SystemIds == {"gdsa", "other"}
Handles == 1..MaxTimers
NoHandle == 0
NoActor == "none"
\* a live timer: the actor its callback converts and the time left until it
\* is due
NoTimer == [actorId |-> NoActor, remaining |-> 0]

Money(g, s, c, n) == [gold |-> g, silver |-> s, copper |-> c, nickel |-> n]
ZeroMoney == Money(0, 0, 0, 0)
NoMoney == [f \in {} |-> 0]

----------------------------------------------------------------------------
(* Currency normalizer *)

\* (money.f || 0): an absent field reads as 0
OrZero(money, f) == IF f \in DOMAIN money THEN money[f] ELSE 0

\* toBaseUnit with silver weighted as copper (mutant)
toBaseUnit_SilverAsCopper(money) ==
    OrZero(money, "gold") * CONVERSION_RATES.gold +
    OrZero(money, "silver") * CONVERSION_RATES.copper +
    OrZero(money, "copper") * CONVERSION_RATES.copper +
    OrZero(money, "nickel") * CONVERSION_RATES.nickel

toBaseUnit(money) ==
    OrZero(money, "gold") * CONVERSION_RATES.gold +
    OrZero(money, "silver") * CONVERSION_RATES.silver +
    OrZero(money, "copper") * CONVERSION_RATES.copper +
    OrZero(money, "nickel") * CONVERSION_RATES.nickel

\* Math.floor(a / b) for b > 0: rounds toward minus infinity
MathFloorDiv(a, b) == a \div b

\* JavaScript a % b for b > 0: the remainder has the sign of a
JsRem(a, b) == IF a >= 0 THEN a % b ELSE -((-a) % b)

\* fromBaseUnit with gold rounded toward zero and a remainder that is never
\* negative (mutant)
fromBaseUnit_TruncatesGold(totalNickel) ==
    LET gold == IF totalNickel >= 0
                THEN totalNickel \div CONVERSION_RATES.gold
                ELSE -((-totalNickel) \div CONVERSION_RATES.gold)
        r1 == totalNickel % CONVERSION_RATES.gold
        silver == MathFloorDiv(r1, CONVERSION_RATES.silver)
        r2 == JsRem(r1, CONVERSION_RATES.silver)
        copper == MathFloorDiv(r2, CONVERSION_RATES.copper)
        r3 == JsRem(r2, CONVERSION_RATES.copper)
    IN  Money(gold, silver, copper, r3)

\* fromBaseUnit without the second remainder step (mutant)
fromBaseUnit_KeepsRemainder(totalNickel) ==
    LET gold == MathFloorDiv(totalNickel, CONVERSION_RATES.gold)
        r1 == JsRem(totalNickel, CONVERSION_RATES.gold)
        silver == MathFloorDiv(r1, CONVERSION_RATES.silver)
        copper == MathFloorDiv(r1, CONVERSION_RATES.copper)
        r3 == JsRem(r1, CONVERSION_RATES.copper)
    IN  Money(gold, silver, copper, r3)

fromBaseUnit(totalNickel) ==
    LET gold == MathFloorDiv(totalNickel, CONVERSION_RATES.gold)
        r1 == JsRem(totalNickel, CONVERSION_RATES.gold)
        silver == MathFloorDiv(r1, CONVERSION_RATES.silver)
        r2 == JsRem(r1, CONVERSION_RATES.silver)
        copper == MathFloorDiv(r2, CONVERSION_RATES.copper)
        r3 == JsRem(r2, CONVERSION_RATES.copper)
        nickel == r3
    IN  Money(gold, silver, copper, nickel)

\* optimizeMoney that drops the nickel below a whole copper (mutant)
optimizeMoney_RoundsToCopper(money) ==
    fromBaseUnit(CONVERSION_RATES.copper * MathFloorDiv(toBaseUnit(money), CONVERSION_RATES.copper))

optimizeMoney(money) == fromBaseUnit(toBaseUnit(money))

\* needsOptimization without its test for negative coins (mutant)
needsOptimization_OnlyOverflow(money) ==
    OrZero(money, "nickel") >= 10 \/ OrZero(money, "copper") >= 10
        \/ OrZero(money, "silver") >= 10

\* needsOptimization without its test for negative gold (mutant)
needsOptimization_IgnoresGold(money) ==
    \/ OrZero(money, "nickel") >= 10 \/ OrZero(money, "copper") >= 10
    \/ OrZero(money, "silver") >= 10
    \/ OrZero(money, "nickel") < 0 \/ OrZero(money, "copper") < 0
    \/ OrZero(money, "silver") < 0

needsOptimization(money) ==
    LET current == Money(OrZero(money, "gold"), OrZero(money, "silver"),
                         OrZero(money, "copper"), OrZero(money, "nickel"))
    IN  IF current.nickel >= 10 \/ current.copper >= 10 \/ current.silver >= 10 THEN TRUE
        ELSE IF current.nickel < 0 \/ current.copper < 0 \/ current.silver < 0
                \/ current.gold < 0 THEN TRUE
        ELSE FALSE

\* canonical form: silver, copper and nickel are single digits, gold is not negative
Canonical(money) ==
    /\ \A f \in {"silver", "copper", "nickel"} : OrZero(money, f) \in 0..9
    /\ OrZero(money, "gold") >= 0

\* optimized.f !== currentMoney.f: an absent field (undefined) differs from every number
StrictNotEqual(optimized, currentMoney, f) ==
    f \notin DOMAIN currentMoney \/ optimized[f] # currentMoney[f]

----------------------------------------------------------------------------
(* Host state the script reads *)

IsLive(h) == timers[h] # NoTimer
LiveTimersOf(e) == {h \in Handles : timers[h].actorId = e}
Tracked(e) == actors[e].type = "PlayerCharakter" /\ systemId = "gdsa"

\* the money records users write into a sheet: a purse that needs conversion
\* (scenario A of the specification), a purse with a negative total
\* (scenario C), a purse with a negative coin and a positive total, and the
\* empty purse
EditRecords ==
    { Money(0, 0, 0, 23), Money(0, 0, 0, -5), Money(1, 0, 0, -5), ZeroMoney }

Marker == [gdsa_autoconvert |-> TRUE]
NoOptions == [gdsa_autoconvert |-> FALSE]

NoWrite == [actorId |-> NoActor, data |-> NoMoney, options |-> NoOptions,
            manual |-> FALSE, kind |-> "none"]

\* history of the last step: the operation ("fire": a timer started
\* performConversion, "manual": the dialog did, "land": an actor.update
\* resolved, "other"), its actor, whether it found the actor, the record it
\* read, the value of showNotifications if it read the setting, whether it called
\* actor.update, the message it surfaced, whether it called
\* scheduleConversion, and whether the timer that started it had been superseded
Step(op, id, found, read, show, wrote, msg, scheduled, superseded) ==
    [op |-> op, id |-> id, found |-> found, read |-> read, show |-> show,
     wrote |-> wrote, msg |-> msg, scheduled |-> scheduled, superseded |-> superseded]
OtherStep == Step("other", NoActor, FALSE, NoMoney, FALSE, FALSE, "none", FALSE, FALSE)

----------------------------------------------------------------------------
(* Update coalescer *)

\* setTimeout returns a handle that no live timer and no other table entry uses
FreeHandles(ts, actorId) ==
    {h \in Handles : ts[h] = NoTimer /\ \A e \in Actors \ {actorId} : updateTimers[e] # h}
NewHandle(ts, actorId) ==
    CHOOSE h \in FreeHandles(ts, actorId) : \A g \in FreeHandles(ts, actorId) : h <= g

\* scheduleConversion with one timer shared by all actors: it clears the
\* timer of every entry of the table (mutant)
ClearedTimers_SharedTimer(actorId) ==
    [h \in Handles |->
        IF \E e \in Actors : updateTimers[e] = h THEN NoTimer ELSE timers[h]]

\* clearTimeout(this.updateTimers.get(actorId)) when the table has the id
ClearedTimers(actorId) ==
    IF updateTimers[actorId] # NoHandle
    THEN [timers EXCEPT ![updateTimers[actorId]] = NoTimer]
    ELSE timers

scheduleConversion(actorId) ==
    LET cleared == ClearedTimers(actorId)
        timer == NewHandle(cleared, actorId)
    IN  /\ FreeHandles(cleared, actorId) # {}
        /\ timers' = [cleared EXCEPT ![timer] = [actorId |-> actorId, remaining |-> Delay]]
        /\ updateTimers' = [updateTimers EXCEPT ![actorId] = timer]

\* the updateActor hook without its first early return (mutant)
HookSchedules_IgnoresMarker(actorType, system, hasMoney, options) ==
    IF actorType # "PlayerCharakter" \/ system # "gdsa" THEN FALSE
    ELSE IF ~hasMoney THEN FALSE
    ELSE TRUE

\* the updateActor hook's three early returns: TRUE when it goes on to
\* scheduleConversion(actor.id)
HookSchedules(actorType, system, hasMoney, options) ==
    IF options.gdsa_autoconvert THEN FALSE
    ELSE IF actorType # "PlayerCharakter" \/ system # "gdsa" THEN FALSE
    ELSE IF ~hasMoney THEN FALSE
    ELSE TRUE

\* game.settings.get(this.ID, "showNotifications") || manual, without manual (mutant)
NotificationGate_SettingOnly(show, manual) == show

\* game.settings.get(this.ID, "showNotifications") || manual
NotificationGate(show, manual) == show \/ manual

\* performConversion without its early return for a record that needs no
\* optimization, writing whatever it computed (mutant)
ConversionOutcome_WritesAlways(actorId, actor, optimized, manual, show) ==
    IF ~actor.exists
    THEN [found |-> FALSE, read |-> NoMoney, write |-> NoWrite, msg |-> "none", show |-> FALSE]
    ELSE [found |-> TRUE, read |-> actor.money, msg |-> "none", show |-> FALSE,
          write |-> [actorId |-> actorId,
                     data |-> IF toBaseUnit(optimized) < 0 THEN ZeroMoney ELSE optimized,
                     options |-> Marker, manual |-> manual,
                     kind |-> IF toBaseUnit(optimized) < 0 THEN "reset" ELSE "optimized"]]

\* performConversion without its return for an actor that game.actors.get
\* does not find, going on with an empty record (mutant)
ConversionOutcome_NoActorCheck(actorId, actor, optimized, manual, show) ==
    [found |-> actor.exists, read |-> actor.money, msg |-> "none", show |-> FALSE,
     write |-> IF manual \/ needsOptimization(actor.money)
               THEN [actorId |-> actorId,
                     data |-> IF toBaseUnit(optimized) < 0 THEN ZeroMoney ELSE optimized,
                     options |-> Marker, manual |-> manual,
                     kind |-> IF toBaseUnit(optimized) < 0 THEN "reset" ELSE "optimized"]
               ELSE NoWrite]

\* what performConversion does after this.updateTimers.delete(actorId), from
\* the actor it finds (or not), the manual flag and the notification setting:
\* the record it read, the actor.update it issues, the message it surfaces
\* before that update resolves, and the setting when it read it
ConversionOutcome(actorId, actor, optimized, manual, show) ==
    LET currentMoney == actor.money
        none == [found |-> TRUE, read |-> currentMoney, write |-> NoWrite, msg |-> "none",
                 show |-> FALSE]
    IN  IF ~actor.exists
        THEN [none EXCEPT !.found = FALSE, !.read = NoMoney]
        ELSE IF ~manual /\ ~needsOptimization(currentMoney) THEN none
        ELSE IF toBaseUnit(optimized) < 0
        THEN [none EXCEPT
                !.show = show,
                !.msg = IF NotificationGate(show, manual) THEN "InsufficientFunds"
                        ELSE "none",
                !.write = [actorId |-> actorId, data |-> ZeroMoney, options |-> Marker,
                           manual |-> manual, kind |-> "reset"]]
        ELSE IF \/ manual
                \/ StrictNotEqual(optimized, currentMoney, "gold")
                \/ StrictNotEqual(optimized, currentMoney, "silver")
                \/ StrictNotEqual(optimized, currentMoney, "copper")
                \/ StrictNotEqual(optimized, currentMoney, "nickel")
        THEN [none EXCEPT
                !.write = [actorId |-> actorId, data |-> optimized, options |-> Marker,
                           manual |-> manual, kind |-> "optimized"]]
        ELSE IF manual THEN [none EXCEPT !.msg = "AlreadyOptimized"]
        ELSE none

\* performConversion without this.updateTimers.delete(actorId) (mutant)
performConversion_KeepsEntry(actorId, manual, show, superseded) ==
    \E actor \in {actors[actorId]} :
    \E optimized \in {optimizeMoney(actor.money)} :
    \E out \in {ConversionOutcome(actorId, actor, optimized, manual, show)} :
        /\ out.write # NoWrite => Len(pendingWrites) < MaxInflight
        /\ updateTimers' = updateTimers
        /\ pendingWrites' = IF out.write # NoWrite
                            THEN Append(pendingWrites, out.write)
                            ELSE pendingWrites
        /\ last' = Step(IF manual THEN "manual" ELSE "fire", actorId, out.found,
                        out.read, out.show, out.write # NoWrite, out.msg, FALSE, superseded)

\* performConversion up to its first await; timers is set by the caller (the
\* timer that fired is gone, a manual call touches no timer).  actor is
\* game.actors.get(actorId), optimized is this.optimizeMoney(currentMoney)
performConversion(actorId, manual, show, superseded) ==
    \E actor \in {actors[actorId]} :
    \E optimized \in {optimizeMoney(actor.money)} :
    \E out \in {ConversionOutcome(actorId, actor, optimized, manual, show)} :
        /\ out.write # NoWrite => Len(pendingWrites) < MaxInflight
        /\ updateTimers' = [updateTimers EXCEPT ![actorId] = NoHandle]
        /\ pendingWrites' = IF out.write # NoWrite
                            THEN Append(pendingWrites, out.write)
                            ELSE pendingWrites
        /\ last' = Step(IF manual THEN "manual" ELSE "fire", actorId, out.found,
                        out.read, out.show, out.write # NoWrite, out.msg, FALSE, superseded)

----------------------------------------------------------------------------
(* Steps *)

Max(a, b) == IF a >= b THEN a ELSE b

\* Hooks.on("updateActor") called by the host after an update of the actor
updateActorHook(actorId, hasMoney, options) ==
    IF HookSchedules(actors[actorId].type, systemId, hasMoney, options)
    THEN scheduleConversion(actorId)
    ELSE UNCHANGED <<timers, updateTimers>>

\* a user (or another module) updates the actor; the update touches
\* system.money or something else (hasMoney)
ExternalUpdate(actorId, hasMoney, money) ==
    /\ actors[actorId].exists
    /\ actors' = IF hasMoney THEN [actors EXCEPT ![actorId].money = money] ELSE actors
    /\ updateActorHook(actorId, hasMoney, NoOptions)
    /\ last' = OtherStep
    /\ UNCHANGED <<systemId, pendingWrites>>
    /\ UNCHANGED calcVars

\* time passes, up to the moment the next timer is due: the host runs a due
\* callback before any later event
Tick ==
    /\ \E h \in Handles : IsLive(h)
    /\ \A h \in Handles : IsLive(h) => timers[h].remaining > 0
    /\ timers' = [h \in Handles |->
                    IF IsLive(h)
                    THEN [timers[h] EXCEPT !.remaining = Max(0, @ - TickStep)]
                    ELSE NoTimer]
    /\ last' = OtherStep
    /\ UNCHANGED <<actors, systemId, updateTimers, pendingWrites>>
    /\ UNCHANGED calcVars

\* history: the timer is not the one of the last notification of its burst:
\* the table holds a younger timer of the same actor, set before this one was due
Superseded(h) ==
    LET entry == updateTimers[timers[h].actorId]
    IN  entry # NoHandle /\ entry # h /\ timers[entry].remaining < Delay

\* the callback setTimeout was given runs: this.performConversion(actorId)
TimerFire(h, show) ==
    /\ IsLive(h)
    /\ timers[h].remaining = 0
    /\ timers' = [timers EXCEPT ![h] = NoTimer]
    /\ performConversion(timers[h].actorId, FALSE, show, Superseded(h))
    /\ UNCHANGED <<actors, systemId>>
    /\ UNCHANGED calcVars

\* the header button of a PlayerCharakter sheet called
\* promptManualExchange(actor) while the actor existed; its
\* await DialogV2.confirm resolves now
promptManualExchange(actorId, confirmed, show) ==
    /\ actors[actorId].type = "PlayerCharakter"
    /\ IF confirmed
       THEN performConversion(actorId, TRUE, show, FALSE)
       ELSE /\ last' = OtherStep
            /\ UNCHANGED <<updateTimers, pendingWrites>>
    /\ UNCHANGED <<actors, systemId, timers>>
    /\ UNCHANGED calcVars

\* an actor.update of performConversion resolves: the host stores the record,
\* calls the updateActor hook with the options of the write, and
\* performConversion resumes after its await
LandWrite(i, show) ==
    LET w == pendingWrites[i]
        stored == actors[w.actorId].exists
    IN  /\ pendingWrites' = SubSeq(pendingWrites, 1, i - 1)
                            \o SubSeq(pendingWrites, i + 1, Len(pendingWrites))
        /\ actors' = IF stored THEN [actors EXCEPT ![w.actorId].money = w.data] ELSE actors
        /\ IF stored
           THEN updateActorHook(w.actorId, TRUE, w.options)
           ELSE UNCHANGED <<timers, updateTimers>>
        /\ last' = Step("land", w.actorId, stored, NoMoney,
                        stored /\ w.kind = "optimized" /\ show, FALSE,
                        IF stored /\ w.kind = "optimized" /\ NotificationGate(show, w.manual)
                        THEN "OptimizedNotification" ELSE "none",
                        stored /\ HookSchedules(actors[w.actorId].type, systemId, TRUE, w.options),
                        FALSE)
        /\ UNCHANGED systemId
        /\ UNCHANGED calcVars

\* the actor is deleted from the world
DeleteActor(actorId) ==
    /\ actors[actorId].exists
    /\ actors' = [actors EXCEPT ![actorId].exists = FALSE, ![actorId].money = NoMoney]
    /\ last' = OtherStep
    /\ UNCHANGED <<systemId, updateTimers, timers, pendingWrites>>
    /\ UNCHANGED calcVars

----------------------------------------------------------------------------
(* Specification of the module in its host *)

NoInput == [kind |-> "none"]
NoOutput == [op |-> "none"]

NewActor(type) == [exists |-> TRUE, type |-> type, money |-> ZeroMoney]

\* a world with one PlayerCharakter and one actor of another type
SoloActors == [e \in Actors |-> NewActor(IF e = "a1" THEN "PlayerCharakter" ELSE "NonPlayer")]
\* a world with two PlayerCharakter actors
PairActors == [e \in Actors |-> NewActor("PlayerCharakter")]

SysInit ==
    /\ systemId \in SystemIds
    /\ updateTimers = [e \in Actors |-> NoHandle]
    /\ timers = [h \in Handles |-> NoTimer]
    /\ pendingWrites = <<>>
    /\ last = OtherStep

Init == SysInit /\ actors = SoloActors /\ calcIn = NoInput /\ calcOut = NoOutput

Next ==
    \/ \E e \in Actors, m \in EditRecords : ExternalUpdate(e, TRUE, m)
    \/ \E e \in Actors : ExternalUpdate(e, FALSE, NoMoney)
    \/ Tick
    \/ \E h \in Handles, show \in BOOLEAN : TimerFire(h, show)
    \/ \E e \in Actors, confirmed \in BOOLEAN, show \in BOOLEAN :
            promptManualExchange(e, confirmed, show)
    \/ \E i \in 1..Len(pendingWrites), show \in BOOLEAN : LandWrite(i, show)
    \/ \E e \in Actors : DeleteActor(e)

Spec == Init /\ [][Next]_vars

\* the host shuts the world down or unloads the module.  The module
\* registers handlers for updateActor, getActorSheetHeaderButtons, init and
\* ready only: nothing of it runs, its table and the timers it set stay as
\* they are until the host drops them
Teardown ==
    /\ last' = Step("teardown", NoActor, FALSE, NoMoney, FALSE, FALSE, "none", FALSE, FALSE)
    /\ UNCHANGED <<actors, systemId, updateTimers, timers, pendingWrites>>
    /\ UNCHANGED calcVars

TeardownNext == Next \/ Teardown

TeardownSpec == Init /\ [][TeardownNext]_vars

PairInit == SysInit /\ actors = PairActors /\ calcIn = NoInput /\ calcOut = NoOutput

PairSpec == PairInit /\ [][Next]_vars

----------------------------------------------------------------------------
(* The scheduling guarantees of the host: time passes, a due timer runs its
   callback, an actor.update resolves.  TimerFire is strongly fair because
   the host runs a due callback whatever else is in flight; only the bound
   MaxInflight of the model can disable it for a while. *)

Fairness ==
    /\ WF_vars(Tick)
    /\ \A h \in Handles : SF_vars(\E show \in BOOLEAN : TimerFire(h, show))
    /\ WF_vars(\E i \in 1..Len(pendingWrites), show \in BOOLEAN : LandWrite(i, show))

\* a gdsa world whose only actor is a PlayerCharakter: the second actor has
\* been deleted
LoneActors == [SoloActors EXCEPT !["a2"].exists = FALSE, !["a2"].money = NoMoney]

LiveInit ==
    /\ SysInit
    /\ systemId = "gdsa"
    /\ actors = LoneActors
    /\ calcIn = NoInput
    /\ calcOut = NoOutput

LiveSpec == LiveInit /\ [][Next]_vars /\ Fairness

----------------------------------------------------------------------------
(* The currency normalizer on its own: the pure functions applied to inputs
   drawn from bounded sets *)

TotalInputs == (-MaxTotal)..MaxTotal
FieldInputs == (-MaxField)..MaxField
GoldInputs == (-MaxGold)..MaxGold

\* money records with all four fields, and records that lack some
MoneyInputs ==
    {Money(g, s, c, n) : g \in GoldInputs, s \in FieldInputs, c \in FieldInputs,
                         n \in FieldInputs}
    \cup {[nickel |-> n] : n \in FieldInputs}
    \cup {[gold |-> g, copper |-> c] : g \in GoldInputs, c \in FieldInputs}

CalcFromBaseUnit ==
    /\ calcIn.kind = "total"
    /\ calcOut = NoOutput
    /\ calcOut' = [op |-> "fromBaseUnit",
                   money |-> fromBaseUnit(calcIn.total),
                   total |-> toBaseUnit(fromBaseUnit(calcIn.total))]
    /\ UNCHANGED <<calcIn, sysVars>>

CalcOptimizeMoney ==
    /\ calcIn.kind = "money"
    /\ calcOut = NoOutput
    /\ calcOut' = [op |-> "optimizeMoney",
                   total |-> toBaseUnit(calcIn.money),
                   money |-> optimizeMoney(calcIn.money),
                   again |-> optimizeMoney(optimizeMoney(calcIn.money)),
                   needs |-> needsOptimization(calcIn.money)]
    /\ UNCHANGED <<calcIn, sysVars>>

CalcInit ==
    /\ SysInit /\ systemId = "gdsa" /\ actors = SoloActors
    /\ calcIn \in {[kind |-> "total", total |-> t] : t \in TotalInputs}
                  \cup {[kind |-> "money", money |-> m] : m \in MoneyInputs}
    /\ calcOut = NoOutput

CalcNext == CalcFromBaseUnit \/ CalcOptimizeMoney

CalcSpec == CalcInit /\ [][CalcNext]_vars

----------------------------------------------------------------------------
(* Claims *)

\* C1: debounce.  Every apply-step a timer starts is started by the timer of
\* the last notification of its burst (no timer of an earlier notification
\* of the burst runs its callback, so a burst gets one apply-step, after its
\* last notification), and it reads the money record as it is when it fires.
C1_Debounce ==
    last.op = "fire" =>
        /\ ~last.superseded
        /\ last.found => last.read = actors[last.id].money

\* C2: loop prevention.  Every actor.update the apply-step has issued carries
\* the marker gdsa_autoconvert, and the updateActor hook called for such a
\* write when it lands never goes on to scheduleConversion.
C2_LoopPrevention ==
    /\ \A i \in 1..Len(pendingWrites) : pendingWrites[i].options.gdsa_autoconvert
    /\ last.op = "land" => ~last.scheduled

\* a marked write has landed on a PlayerCharakter of the gdsa system, for
\* which an unmarked money update would have been scheduled
C2_Witness ==
    /\ last.op = "land" /\ last.found /\ Tracked(last.id)
    /\ HookSchedules(actors[last.id].type, systemId, TRUE, NoOptions)

\* C3: for a single entity at most one scheduled apply-step callback (live
\* timer) is outstanding at any time.
C3_AtMostOneTimer == \A e \in Actors : Cardinality(LiveTimersOf(e)) <= 1

\* C4: a manual apply-step cancels the pending delayed invocation: right
\* after it no timer of the entity is live.
C4_ManualCancels == last.op = "manual" => LiveTimersOf(last.id) = {}

\* C5: a manual apply-step on a record that optimizeMoney returns unchanged
\* issues no write and surfaces the "already optimized" message.
C5_ManualAlreadyOptimized ==
    (last.op = "manual" /\ last.found /\ optimizeMoney(last.read) = last.read) =>
        (~last.wrote /\ last.msg = "AlreadyOptimized")

\* C6: round trip.  toBaseUnit(fromBaseUnit(n)) = n for every integer n.
C6_RoundTrip == calcOut.op = "fromBaseUnit" => calcOut.total = calcIn.total

\* C7: insufficient funds.  An apply-step that finds its entity with a
\* negative base-unit total issues exactly the marked write of the all-zero
\* record, surfaces the warning exactly when the setting is on or the step
\* was manual, and no apply-step completes (returns without a write, or its
\* write lands) leaving the entity with a negative total.
C7_InsufficientFunds ==
    /\ (last.op \in {"fire", "manual"} /\ last.found /\ toBaseUnit(last.read) < 0) =>
        /\ last.wrote
        /\ Len(pendingWrites) >= 1
        /\ LET w == pendingWrites[Len(pendingWrites)]
           IN  /\ w.actorId = last.id
               /\ w.data = ZeroMoney
               /\ w.kind = "reset"
               /\ w.options.gdsa_autoconvert
        /\ (last.msg = "InsufficientFunds") <=> (last.show \/ last.op = "manual")
        /\ last.msg \in {"InsufficientFunds", "none"}
    /\ (last.op \in {"fire", "manual"} /\ last.found /\ ~last.wrote) =>
        toBaseUnit(actors[last.id].money) >= 0
    /\ (last.op = "land" /\ last.found) => toBaseUnit(actors[last.id].money) >= 0

\* a manual apply-step met a negative total with the setting off and warned
C7_Witness ==
    /\ last.op = "manual" /\ last.found /\ toBaseUnit(last.read) < 0
    /\ ~last.show /\ last.msg = "InsufficientFunds"

\* C8: eventual canonical form.  Unless money is edited again and again
\* without end, from some moment on every existing PlayerCharakter of the
\* gdsa system has a canonical record and no entry in the scheduling table.
MoneyEdit == \E e \in Actors, m \in EditRecords : ExternalUpdate(e, TRUE, m)
Settled(e) ==
    actors[e].exists => Canonical(actors[e].money) /\ updateTimers[e] = NoHandle
C8_EventualCanonical ==
    []<><<MoneyEdit>>_vars \/ <>[](\A e \in Actors : Tracked(e) => Settled(e))

\* the write of a converted purse has landed and the entity is settled
C8_Witness ==
    /\ last.op = "land" /\ last.found /\ Tracked(last.id)
    /\ actors[last.id].money = Money(0, 9, 9, 5)
    /\ updateTimers[last.id] = NoHandle /\ LiveTimersOf(last.id) = {}

\* C9: canonical range.  For every total n >= 0, fromBaseUnit(n) has nickel,
\* copper and silver in 0..9 and gold >= 0.
C9_CanonicalRange ==
    (calcOut.op = "fromBaseUnit" /\ calcIn.total >= 0) => Canonical(calcOut.money)

\* fromBaseUnit was applied to a total with every digit at its largest
C9_Witness ==
    calcOut.op = "fromBaseUnit" /\ calcIn.total = 1999 /\ calcOut.money = Money(1, 9, 9, 9)

\* C10: idempotence.  For every money record with a non-negative base-unit
\* total, optimizeMoney applied twice equals optimizeMoney applied once.
C10_Idempotent ==
    (calcOut.op = "optimizeMoney" /\ calcOut.total >= 0) => calcOut.again = calcOut.money

\* optimizeMoney was applied to a record with a negative coin, coins of ten
\* and more, and a non-negative total
C10_Witness ==
    /\ calcOut.op = "optimizeMoney" /\ calcIn.money = Money(1, -3, 10, 11)
    /\ calcOut.total >= 0 /\ calcOut.money = Money(0, 8, 1, 1)

\* C11: needsOptimization(money) is true exactly when one of nickel, copper,
\* silver is 10 or more or one of nickel, copper, silver, gold is negative,
\* an absent field counting as 0; so it is false for every canonical record
\* and true for every record with a negative base-unit total.
C11_NeedsOptimization ==
    calcOut.op = "optimizeMoney" =>
        /\ calcOut.needs <=>
                \/ \E f \in {"nickel", "copper", "silver"} : OrZero(calcIn.money, f) >= 10
                \/ \E f \in {"nickel", "copper", "silver", "gold"} :
                        OrZero(calcIn.money, f) < 0
        /\ Canonical(calcIn.money) => ~calcOut.needs
        /\ calcOut.total < 0 => calcOut.needs

\* needsOptimization was applied to a record that lacks silver and nickel
\* and whose only fault is its negative gold
C11_Witness ==
    /\ calcOut.op = "optimizeMoney" /\ calcIn.money = [gold |-> -1, copper |-> 0]
    /\ calcOut.needs /\ calcOut.total < 0

\* C12: redundant-write avoidance.  An apply-step started by a timer that
\* finds its entity with a record that needs no optimization issues no write
\* and surfaces no message; of the module's and the store's state it changes
\* only the scheduling table, where the entity's entry is removed.
C12_NoRedundantWrite ==
    [][(last'.op = "fire" /\ last'.found /\ ~needsOptimization(last'.read)) =>
            /\ ~last'.wrote /\ last'.msg = "none"
            /\ pendingWrites' = pendingWrites
            /\ actors' = actors
            /\ updateTimers' = [updateTimers EXCEPT ![last'.id] = NoHandle]]_vars

\* a timer fired for an existing entity whose record needed no optimization
\* while a write for the entity was in flight
C12_Witness ==
    /\ last.op = "fire" /\ last.found /\ ~needsOptimization(last.read)
    /\ ~last.wrote /\ updateTimers[last.id] = NoHandle
    /\ Len(pendingWrites) = 1

\* C13: entity not found.  An apply-step, started by a timer or manually,
\* for an entity that has been deleted issues no write and surfaces no
\* message; it leaves the store alone and the scheduling table without an
\* entry for the entity.
C13_EntityNotFound ==
    [][(last'.op \in {"fire", "manual"} /\ ~last'.found) =>
            /\ ~last'.wrote /\ last'.msg = "none"
            /\ pendingWrites' = pendingWrites
            /\ actors' = actors
            /\ updateTimers' = [updateTimers EXCEPT ![last'.id] = NoHandle]]_vars

\* the timer of a notification fired after its entity had been deleted
C13_Witness ==
    /\ last.op = "fire" /\ ~last.found /\ ~actors[last.id].exists
    /\ ~last.wrote /\ last.msg = "none" /\ updateTimers[last.id] = NoHandle

\* C14: teardown.  When the module is shut down or unloaded every
\* outstanding timer of the scheduling table is cancelled and the table is
\* emptied (so that no apply-step fires afterwards): right after teardown
\* no timer is live and no entity has an entry.
C14_Teardown ==
    last.op = "teardown" =>
        /\ \A e \in Actors : updateTimers[e] = NoHandle
        /\ \A h \in Handles : ~IsLive(h)

\* C15: value conservation of the write-back.  The write an apply-step
\* issues is the reset to the all-zero record exactly when the base-unit
\* total of the record it read is negative; otherwise it is a canonical
\* record with the same base-unit total as the record it read.
C15_ValueConservation ==
    (last.op \in {"fire", "manual"} /\ last.wrote) =>
        /\ Len(pendingWrites) >= 1
        /\ LET w == pendingWrites[Len(pendingWrites)]
               total == toBaseUnit(last.read)
           IN  /\ w.actorId = last.id
               /\ w.kind = "reset" <=> total < 0
               /\ total < 0 => w.data = ZeroMoney
               /\ total >= 0 =>
                    /\ Canonical(w.data)
                    /\ toBaseUnit(w.data) = total

\* a timer's apply-step read 23 nickel and wrote 2 copper and 3 nickel
C15_Witness ==
    /\ last.op = "fire" /\ last.wrote /\ last.read = Money(0, 0, 0, 23)
    /\ Len(pendingWrites) >= 1
    /\ pendingWrites[Len(pendingWrites)].data = Money(0, 0, 2, 3)

\* C16: sign preservation of the negative-funds test.  For every money
\* record m, toBaseUnit(optimizeMoney(m)) is negative exactly when
\* toBaseUnit(m) is negative (so testing the total of the optimized record,
\* as performConversion does, is testing the total of the current record).
C16_SignPreserved ==
    calcOut.op = "optimizeMoney" =>
        (toBaseUnit(calcOut.money) < 0 <=> calcOut.total < 0)

\* optimizeMoney was applied to a purse of -5 nickel; the optimized record
\* has another total, negative too
C16_Witness ==
    /\ calcOut.op = "optimizeMoney" /\ calcIn.money = Money(0, 0, 0, -5)
    /\ calcOut.total = -5 /\ toBaseUnit(calcOut.money) = -1115

\* C17: negative decomposition.  For every negative total, fromBaseUnit
\* returns silver, copper and nickel in 0..9 and a negative gold: the
\* remainders are never negative and gold alone carries the sign.
C17_NegativeDecomposition ==
    (calcOut.op = "fromBaseUnit" /\ calcIn.total < 0) =>
        /\ \A f \in {"silver", "copper", "nickel"} : calcOut.money[f] \in 0..9
        /\ calcOut.money.gold < 0

\* C18: no stale handles in the scheduling table.  Every entry of
\* updateTimers is the handle of a timer that is still pending and belongs
\* to the entry's entity; an entry is set or replaced only by
\* scheduleConversion for its entity (a money update of that entity, with a
\* timer of the full delay), and every apply-step, started by a timer or
\* manually, leaves its entity without an entry.
NoStaleHandle ==
    \A e \in Actors :
        updateTimers[e] # NoHandle =>
            /\ IsLive(updateTimers[e])
            /\ timers[updateTimers[e]].actorId = e
EntrySetOnlyBySchedule ==
    \A e \in Actors :
        (updateTimers'[e] # updateTimers[e] /\ updateTimers'[e] # NoHandle) =>
            /\ \E m \in EditRecords : ExternalUpdate(e, TRUE, m)
            /\ timers'[updateTimers'[e]] = [actorId |-> e, remaining |-> Delay]
EntryRemovedByApplyStep ==
    last'.op \in {"fire", "manual"} => updateTimers'[last'.id] = NoHandle
C18_NoStaleHandles ==
    /\ []NoStaleHandle
    /\ [][EntrySetOnlyBySchedule /\ EntryRemovedByApplyStep]_vars

\* a timer that a manual apply-step had left behind fired while the table
\* held the younger timer of a later notification
C18_Witness ==
    /\ last.op = "fire" /\ last.superseded
    /\ updateTimers[last.id] = NoHandle /\ LiveTimersOf(last.id) # {}

\* C19: cross-entity independence.  scheduleConversion(a) and every
\* apply-step for entity a (started by a timer or manually, up to the landing
\* of its write) leave the table entry, the timers and the money record of
\* every other entity b as they are: no timer of b is cancelled, set back or
\* created, and b's record is not written.
StepFor(a) ==
    \/ \E m \in EditRecords : ExternalUpdate(a, TRUE, m)
    \/ last'.op \in {"fire", "manual", "land"} /\ last'.id = a
Untouched(b) ==
    /\ updateTimers'[b] = updateTimers[b]
    /\ actors'[b] = actors[b]
    /\ \A h \in Handles :
            (timers[h].actorId = b \/ timers'[h].actorId = b) => timers'[h] = timers[h]
C19_CrossEntityIndependence ==
    [][\A a \in Actors : StepFor(a) => \A b \in Actors \ {a} : Untouched(b)]_vars

\* the timer of a1 fired and its apply-step issued a write while the timer
\* of a2, set later, was pending
C19_Witness ==
    /\ last.op = "fire" /\ last.id = "a1" /\ last.wrote
    /\ updateTimers["a2"] # NoHandle
    /\ timers[updateTimers["a2"]] = [actorId |-> "a2", remaining |-> TickStep]
    /\ actors["a2"].money = Money(0, 0, 0, 23)

====
